---- MODULE Spec2Model ----
(***************************************************************************)
(* update-manager.c: one update transaction (main) over an OSTree          *)
(* repository and sysroot.  Each run of main is a process p with its own   *)
(* stack frame; the repository (remotes, local refs) and the boot          *)
(* environment (deployments) are shared, persistent state.                 *)
(***************************************************************************)
EXTENDS Integers, Sequences, FiniteSets, TLC

VARIABLES
    pc,            \* [process -> position in main]
    frame,         \* [process -> main's local variables]
    out,           \* [process -> sequence of lines printed]
    released,      \* [process -> sequence of release calls made at cleanup]
    remotes,       \* repository: set of configured remotes [name, url]
    localRefs,     \* repository: set of locally resolvable refs [ref, commit]
    deployments,   \* sysroot: sequence of deployments
    transfers,     \* refs lists handed to ostree_repo_pull_with_options
    calls,         \* log of the calls made: [proc, op, arg, ok]
    ptrSize,       \* sizeof(char *) of the build
    remotes0,      \* history: remotes at the start
    deployments0   \* history: deployments at the start

vars == <<pc, frame, out, released, remotes, localRefs, deployments,
          transfers, calls, ptrSize, remotes0, deployments0>>

----------------------------------------------------------------------------
(* Constants of main                                                       *)

EXIT_SUCCESS == 0
EXIT_FAILURE == 1

osname == "myos"
repo_path == "/sysroot/ostree/repo"
remote_name == "linuxmint"
remote_url == "https://updates.myserver.com/ostreerepo"
ref == "myOS/amd64/stable"
refs == <<ref>>

\* char refspec_str[128]
RefspecBufSize == 128

\* sizeof(char *) on the 32-bit and 64-bit builds
PointerSizes == {4, 8}

(* The strings that reach g_snprintf, as character sequences.              *)
Chars(s) ==
    CASE s = "linuxmint" -> <<"l","i","n","u","x","m","i","n","t">>
      [] s = "myOS/amd64/stable" ->
             <<"m","y","O","S","/","a","m","d","6","4","/","s","t","a","b","l","e">>
      [] s = "acme" -> <<"a","c","m","e">>
      [] s = "stable/amd64" ->
             <<"s","t","a","b","l","e","/","a","m","d","6","4">>
      [] s = "a" -> <<"a">>
      [] s = "s" -> <<"s">>
      [] OTHER -> <<>>

----------------------------------------------------------------------------
(* Values of main's pointer variables: a variable whose declaration was    *)
(* jumped over by goto is "uninit"; otherwise it is NULL or points to an   *)
(* object.                                                                 *)

UninitPtr == [st |-> "uninit", val |-> ""]
NullPtr == [st |-> "null", val |-> ""]
Ptr(v) == [st |-> "set", val |-> v]

UninitList == [st |-> "uninit", val |-> <<>>]
NullList == [st |-> "null", val |-> <<>>]

\* GError *error
NoError == [set |-> FALSE, by |-> "", message |-> ""]
GErrorOf(by, message) == [set |-> TRUE, by |-> by, message |-> message]

\* the frame of main at entry: lines 120-126 have run, the declarations at
\* lines 128, 136, 183, 191, 199, 200 have not
Frame0 ==
    [error |-> NoError,
     status |-> EXIT_SUCCESS,
     repo |-> UninitPtr,
     remote_list |-> UninitList,
     new_commit |-> UninitPtr,
     sysroot |-> UninitPtr,
     origin |-> UninitList,
     refspec_str |-> <<>>]

Procs == DOMAIN pc

Line(text, arg) == [text |-> text, arg |-> arg]

\* a call of one of the wrappers: who, which, its string arguments, its result
Call(p, op, arg, ok) == [proc |-> p, op |-> op, arg |-> arg, ok |-> ok]

----------------------------------------------------------------------------
(* The wrappers of lines 8-116, each with the library call it makes.  The  *)
(* outcome of a library call that can fail for reasons outside the program *)
(* (I/O, network) is the parameter ok.                                     *)

\* open_repo: NULL and *error set when ostree_repo_open fails
open_repo(ok, error) ==
    IF ok THEN [ret |-> Ptr("OstreeRepo"), error |-> error]
    ELSE [ret |-> NullPtr,
          error |-> GErrorOf("open_repo", "ostree_repo_open failed")]

\* the order in which the repository enumerates remote names
KnownRemoteNames == <<"flathub", "linuxmint">>

\* ostree_repo_remote_list: the names, NULL-terminated; NULL when the
\* repository has no remote (it has no error argument)
ostree_repo_remote_list(rs) ==
    LET names == SelectSeq(KnownRemoteNames,
                           LAMBDA n : \E r \in rs : r.name = n)
    IN  IF names = <<>> THEN NullList ELSE [st |-> "set", val |-> names]

list_remote(rs, error) ==
    LET remote_list == ostree_repo_remote_list(rs)
    IN  IF remote_list.st = "null"
        THEN [ret |-> remote_list,
              error |-> GErrorOf("list_remote", "Failed to list remotes")]
        ELSE [ret |-> remote_list, error |-> error]

\* add_remote: ostree_repo_remote_add refuses a name that is configured
add_remote(rs, name, url, ok, error) ==
    IF \E r \in rs : r.name = name
    THEN [ret |-> FALSE, remotes |-> rs,
          error |-> GErrorOf("add_remote", "remote already exists")]
    ELSE IF ok
    THEN [ret |-> TRUE, remotes |-> rs \cup {[name |-> name, url |-> url]},
          error |-> error]
    ELSE [ret |-> FALSE, remotes |-> rs,
          error |-> GErrorOf("add_remote", "ostree_repo_remote_add failed")]

\* the commit the remote serves for a ref
RemoteCommit(r) == "c0ffee"

SeqToSet(s) == {s[i] : i \in 1..Len(s)}

\* pull_remote: the refs are put into the options and handed to
\* ostree_repo_pull_with_options, whatever they are
pull_remote(rs, lrefs, name, rfs, ok, error) ==
    IF ok /\ \E r \in rs : r.name = name
    THEN [ret |-> TRUE,
          localRefs |-> {l \in lrefs : l.ref \notin SeqToSet(rfs)} \cup
                        {[ref |-> r, commit |-> RemoteCommit(r)] :
                             r \in SeqToSet(rfs)},
          forwarded |-> rfs,
          error |-> error]
    ELSE [ret |-> FALSE, localRefs |-> lrefs, forwarded |-> rfs,
          error |-> GErrorOf("pull_remote", "pull failed")]

\* resolve_rev: a local lookup; *new_commit is written on success only
resolve_rev(lrefs, r, ok, error) ==
    IF ok /\ \E l \in lrefs : l.ref = r
    THEN [ret |-> TRUE,
          new_commit |-> Ptr((CHOOSE l \in lrefs : l.ref = r).commit),
          error |-> error]
    ELSE [ret |-> FALSE, new_commit |-> NullPtr,
          error |-> GErrorOf("resolve_rev", "ref not found")]

load_deployments(ok, error) ==
    IF ok THEN [ret |-> TRUE, error |-> error]
    ELSE [ret |-> FALSE,
          error |-> GErrorOf("load_deployments", "ostree_sysroot_load failed")]

Min(a, b) == IF a < b THEN a ELSE b

\* g_snprintf(buf, n, "%s:%s", ...): at most n - 1 characters and the NUL
g_snprintf(n, s) == IF n = 0 THEN <<>> ELSE SubSeq(s, 1, Min(Len(s), n - 1))

\* the refspec "remote:ref" in full
Refspec(name, r) == Chars(name) \o <<":">> \o Chars(r)

\* create_origin: refspec_str is a char * parameter, so sizeof(refspec_str)
\* is the size of a pointer; it has no GError argument
create_origin(psize, name, r, ok) ==
    LET refspec_str == g_snprintf(psize, Refspec(name, r))
    IN  [refspec_str |-> refspec_str,
         origin |-> IF ok THEN [st |-> "set", val |-> refspec_str]
                    ELSE NullList,
         ret |-> ok]

\* deploy_tree: ostree_sysroot_stage_tree_with_options stages the new
\* deployment in front of the others, or changes nothing
deploy_tree(deps, os, commit, origin, ok, error) ==
    IF ok
    THEN [ret |-> TRUE,
          deployments |-> <<[osname |-> os, commit |-> commit,
                             origin |-> origin, role |-> "staged"]>> \o deps,
          error |-> error]
    ELSE [ret |-> FALSE, deployments |-> deps,
          error |-> GErrorOf("deploy_tree", "staging failed")]

\* ostree_sysroot_cleanup: drops the deployments nothing retains
ostree_sysroot_cleanup(deps, ok, error) ==
    IF ok
    THEN [ret |-> TRUE,
          deployments |-> SelectSeq(deps, LAMBDA d : d.role # "obsolete"),
          error |-> error]
    ELSE [ret |-> FALSE, deployments |-> deps,
          error |-> GErrorOf("ostree_sysroot_cleanup", "cleanup failed")]

----------------------------------------------------------------------------
(* main, lines 118-247: one action per step.                               *)

Say(p, line) == out' = [out EXCEPT ![p] = Append(@, line)]

Log(p, op, arg, ok) == calls' = Append(calls, Call(p, op, arg, ok))

\* a failure branch that forgets status = EXIT_FAILURE
Abort_KeepStatus(p, f, text) ==
    /\ frame' = [frame EXCEPT ![p] = f]
    /\ Say(p, Line(text, f.error.message))
    /\ pc' = [pc EXCEPT ![p] = "cleanup"]

\* a failure branch: print the stage and error->message, status =
\* EXIT_FAILURE, goto cleanup
Abort(p, f, text) ==
    /\ frame' = [frame EXCEPT ![p] = [f EXCEPT !.status = EXIT_FAILURE]]
    /\ Say(p, Line(text, f.error.message))
    /\ pc' = [pc EXCEPT ![p] = "cleanup"]

\* lines 128-134
OpenRepo(p) ==
    /\ pc[p] = "open"
    /\ \E ok \in BOOLEAN :
        LET r == open_repo(ok, frame[p].error)
            f == [frame[p] EXCEPT !.repo = r.ret, !.error = r.error]
        IN  /\ Log(p, "open_repo", <<repo_path>>, r.ret.st = "set")
            /\ IF r.ret.st # "set"
               THEN Abort(p, f, "Failed to open repo")
               ELSE /\ frame' = [frame EXCEPT ![p] = f]
                    /\ Say(p, Line("Repository opened successfully!", ""))
                    /\ pc' = [pc EXCEPT ![p] = "list"]
    /\ UNCHANGED <<released, remotes, localRefs, deployments, transfers,
                   ptrSize, remotes0, deployments0>>

\* the lines "Remote i: name" of the loop at lines 142-144
RemoteLines(names) == [i \in 1..Len(names) |-> Line("Remote", names[i])]

\* lines 136-144
ListRemotes(p) ==
    /\ pc[p] = "list"
    /\ LET r == list_remote(remotes, frame[p].error)
           f == [frame[p] EXCEPT !.remote_list = r.ret, !.error = r.error]
       IN  /\ Log(p, "list_remote", <<>>, r.ret.st = "set")
           /\ IF r.ret.st # "set"
              THEN Abort(p, f, "Failed to list remotes")
              ELSE /\ frame' = [frame EXCEPT ![p] = f]
                   /\ out' = [out EXCEPT ![p] = @ \o RemoteLines(r.ret.val)]
                   /\ pc' = [pc EXCEPT ![p] = "ensure"]
    /\ UNCHANGED <<released, remotes, localRefs, deployments, transfers,
                   ptrSize, remotes0, deployments0>>

\* the loop of lines 149-154
Exists(remote_list, name) ==
    \E i \in 1..Len(remote_list.val) : remote_list.val[i] = name

\* EnsureRemote that adds the remote without looking at the list
EnsureRemote_AlwaysAdd(p) ==
    /\ pc[p] = "ensure"
    /\ \E ok \in BOOLEAN :
        LET r == add_remote(remotes, remote_name, remote_url, ok,
                            frame[p].error)
            f == [frame[p] EXCEPT !.error = r.error]
        IN  /\ Log(p, "add_remote", <<remote_name, remote_url>>, r.ret)
            /\ remotes' = r.remotes
            /\ IF ~r.ret
               THEN Abort(p, f, "Failed to add remote")
               ELSE /\ frame' = [frame EXCEPT ![p] = f]
                    /\ Say(p, Line("Remote added successfully.", remote_name))
                    /\ pc' = [pc EXCEPT ![p] = "pull"]
    /\ UNCHANGED <<released, localRefs, deployments, transfers, ptrSize,
                   remotes0, deployments0>>

\* EnsureRemote that goes on to the pull when the addition is refused
EnsureRemote_IgnoreAddFailure(p) ==
    /\ pc[p] = "ensure"
    /\ IF frame[p].remote_list.st = "set" /\ Exists(frame[p].remote_list, remote_name)
       THEN /\ Say(p, Line("Remote already exists.", remote_name))
            /\ pc' = [pc EXCEPT ![p] = "pull"]
            /\ UNCHANGED <<frame, remotes, calls>>
       ELSE \E ok \in BOOLEAN :
              LET r == add_remote(remotes, remote_name, remote_url, ok,
                                  frame[p].error)
              IN  /\ Log(p, "add_remote", <<remote_name, remote_url>>, r.ret)
                  /\ remotes' = r.remotes
                  /\ frame' = frame
                  /\ Say(p, Line("Remote added successfully.", remote_name))
                  /\ pc' = [pc EXCEPT ![p] = "pull"]
    /\ UNCHANGED <<released, localRefs, deployments, transfers, ptrSize,
                   remotes0, deployments0>>

\* lines 146-174: both branches of if (remote_list) add the remote the same
\* way, the first only when the loop did not find it
EnsureRemote(p) ==
    /\ pc[p] = "ensure"
    /\ IF frame[p].remote_list.st = "set" /\ Exists(frame[p].remote_list, remote_name)
       THEN /\ Say(p, Line("Remote already exists.", remote_name))
            /\ pc' = [pc EXCEPT ![p] = "pull"]
            /\ UNCHANGED <<frame, remotes, calls>>
       ELSE \E ok \in BOOLEAN :
              LET r == add_remote(remotes, remote_name, remote_url, ok,
                                  frame[p].error)
                  f == [frame[p] EXCEPT !.error = r.error]
              IN  /\ Log(p, "add_remote", <<remote_name, remote_url>>, r.ret)
                  /\ remotes' = r.remotes
                  /\ IF ~r.ret
                     THEN Abort(p, f, "Failed to add remote")
                     ELSE /\ frame' = [frame EXCEPT ![p] = f]
                          /\ Say(p, Line("Remote added successfully.", remote_name))
                          /\ pc' = [pc EXCEPT ![p] = "pull"]
    /\ UNCHANGED <<released, localRefs, deployments, transfers, ptrSize,
                   remotes0, deployments0>>

\* Pull without the goto of its failure branch
Pull_NoGoto(p) ==
    /\ pc[p] = "pull"
    /\ \E ok \in BOOLEAN :
        LET r == pull_remote(remotes, localRefs, remote_name, refs, ok,
                             frame[p].error)
            f == [frame[p] EXCEPT !.error = r.error,
                                  !.status = IF r.ret THEN @ ELSE EXIT_FAILURE]
        IN  /\ Log(p, "pull_remote", refs, r.ret)
            /\ transfers' = Append(transfers, r.forwarded)
            /\ localRefs' = r.localRefs
            /\ frame' = [frame EXCEPT ![p] = f]
            /\ Say(p, IF r.ret
                      THEN Line("Pull from remote completed successfully.",
                                remote_name)
                      ELSE Line("Failed to pull refs", r.error.message))
            /\ pc' = [pc EXCEPT ![p] = "resolve"]
    /\ UNCHANGED <<released, remotes, deployments, ptrSize, remotes0,
                   deployments0>>

\* Pull that tries again when the pull failed
Pull_Retry(p) ==
    /\ pc[p] = "pull"
    /\ \E ok \in BOOLEAN :
        LET r == pull_remote(remotes, localRefs, remote_name, refs, ok,
                             NoError)
            f == [frame[p] EXCEPT !.error = r.error]
        IN  /\ Log(p, "pull_remote", refs, r.ret)
            /\ transfers' = Append(transfers, r.forwarded)
            /\ localRefs' = r.localRefs
            /\ IF ~r.ret
               THEN IF Len(SelectSeq(calls, LAMBDA c : c.op = "pull_remote")) < 1
                    THEN /\ frame' = [frame EXCEPT ![p] = f]
                         /\ Say(p, Line("Failed to pull refs", f.error.message))
                         /\ pc' = pc
                    ELSE Abort(p, f, "Failed to pull refs")
               ELSE /\ frame' = [frame EXCEPT ![p] = f]
                    /\ Say(p, Line("Pull from remote completed successfully.",
                                   remote_name))
                    /\ pc' = [pc EXCEPT ![p] = "resolve"]
    /\ UNCHANGED <<released, remotes, deployments, ptrSize, remotes0,
                   deployments0>>

\* lines 176-181
Pull(p) ==
    /\ pc[p] = "pull"
    /\ \E ok \in BOOLEAN :
        LET r == pull_remote(remotes, localRefs, remote_name, refs, ok,
                             frame[p].error)
            f == [frame[p] EXCEPT !.error = r.error]
        IN  /\ Log(p, "pull_remote", refs, r.ret)
            /\ transfers' = Append(transfers, r.forwarded)
            /\ localRefs' = r.localRefs
            /\ IF ~r.ret
               THEN Abort(p, f, "Failed to pull refs")
               ELSE /\ frame' = [frame EXCEPT ![p] = f]
                    /\ Say(p, Line("Pull from remote completed successfully.",
                                   remote_name))
                    /\ pc' = [pc EXCEPT ![p] = "resolve"]
    /\ UNCHANGED <<released, remotes, deployments, ptrSize, remotes0,
                   deployments0>>

\* Resolve without the goto of its failure branch
Resolve_NoGoto(p) ==
    /\ pc[p] = "resolve"
    /\ \E ok \in BOOLEAN :
        LET r == resolve_rev(localRefs, ref, ok, frame[p].error)
            f == [frame[p] EXCEPT !.new_commit = r.new_commit,
                                  !.error = r.error,
                                  !.status = IF r.ret THEN @ ELSE EXIT_FAILURE]
        IN  /\ Log(p, "resolve_rev", <<ref>>, r.ret)
            /\ frame' = [frame EXCEPT ![p] = f]
            /\ Say(p, IF r.ret THEN Line("Resolved commit", r.new_commit.val)
                      ELSE Line("Failed to resolve commits", r.error.message))
            /\ pc' = [pc EXCEPT ![p] = "load"]
    /\ UNCHANGED <<released, remotes, localRefs, deployments, transfers,
                   ptrSize, remotes0, deployments0>>

\* lines 183-189
Resolve(p) ==
    /\ pc[p] = "resolve"
    /\ \E ok \in BOOLEAN :
        LET r == resolve_rev(localRefs, ref, ok, frame[p].error)
            f == [frame[p] EXCEPT !.new_commit = r.new_commit,
                                  !.error = r.error]
        IN  /\ Log(p, "resolve_rev", <<ref>>, r.ret)
            /\ IF ~r.ret
               THEN Abort(p, f, "Failed to resolve commits")
               ELSE /\ frame' = [frame EXCEPT ![p] = f]
                    /\ Say(p, Line("Resolved commit", r.new_commit.val))
                    /\ pc' = [pc EXCEPT ![p] = "load"]
    /\ UNCHANGED <<released, remotes, localRefs, deployments, transfers,
                   ptrSize, remotes0, deployments0>>

\* LoadDeployments with the sysroot cleaned up as soon as it is loaded
LoadDeployments_Pruning(p) ==
    /\ pc[p] = "load"
    /\ \E ok \in BOOLEAN :
        LET r == load_deployments(ok, frame[p].error)
            f == [frame[p] EXCEPT !.sysroot = Ptr("OstreeSysroot"),
                                  !.error = r.error]
        IN  /\ Log(p, "load_deployments", <<>>, r.ret)
            /\ IF ~r.ret
               THEN Abort(p, f, "Failed to load deployments") /\ UNCHANGED deployments
               ELSE /\ frame' = [frame EXCEPT ![p] = f]
                    /\ deployments' =
                          ostree_sysroot_cleanup(deployments, TRUE, r.error).deployments
                    /\ Say(p, Line("Sysroot deployments loaded successfully.", ""))
                    /\ pc' = [pc EXCEPT ![p] = "origin"]
    /\ UNCHANGED <<released, remotes, localRefs, transfers,
                   ptrSize, remotes0, deployments0>>

\* lines 191-197
LoadDeployments(p) ==
    /\ pc[p] = "load"
    /\ \E ok \in BOOLEAN :
        LET r == load_deployments(ok, frame[p].error)
            f == [frame[p] EXCEPT !.sysroot = Ptr("OstreeSysroot"),
                                  !.error = r.error]
        IN  /\ Log(p, "load_deployments", <<>>, r.ret)
            /\ IF ~r.ret
               THEN Abort(p, f, "Failed to load deployments")
               ELSE /\ frame' = [frame EXCEPT ![p] = f]
                    /\ Say(p, Line("Sysroot deployments loaded successfully.", ""))
                    /\ pc' = [pc EXCEPT ![p] = "origin"]
    /\ UNCHANGED <<released, remotes, localRefs, deployments, transfers,
                   ptrSize, remotes0, deployments0>>

\* what g_printerr shows for error->message when error is NULL
Garbage == "<indeterminate>"

\* lines 199-206: the failure branch reads error->message, and no call has
\* set error: the read of a null pointer either ends the process or yields
\* some bytes
CreateOrigin(p) ==
    /\ pc[p] = "origin"
    /\ \E ok \in BOOLEAN :
        LET r == create_origin(ptrSize, remote_name, ref, ok)
            f == [frame[p] EXCEPT !.origin = r.origin,
                                  !.refspec_str = r.refspec_str]
        IN  /\ Log(p, "create_origin", <<remote_name, ref>>, r.ret)
            /\ IF ~r.ret
               THEN IF f.error.set
                    THEN Abort(p, f, "Failed to create an .origin file")
                    ELSE \/ /\ frame' = [frame EXCEPT ![p] = f]
                            /\ pc' = [pc EXCEPT ![p] = "crashed"]
                            /\ UNCHANGED out
                         \/ Abort(p, [f EXCEPT !.error.message = Garbage],
                                  "Failed to create an .origin file")
               ELSE /\ frame' = [frame EXCEPT ![p] = f]
                    /\ Say(p, Line("Origin file created successfully.", ""))
                    /\ pc' = [pc EXCEPT ![p] = "deploy"]
    /\ UNCHANGED <<released, remotes, localRefs, deployments, transfers,
                   ptrSize, remotes0, deployments0>>

\* DeployTree without the goto of its failure branch
DeployTree_NoGoto(p) ==
    /\ pc[p] = "deploy"
    /\ \E ok \in BOOLEAN :
        LET r == deploy_tree(deployments, osname, frame[p].new_commit.val,
                             frame[p].origin.val, ok, frame[p].error)
            f == [frame[p] EXCEPT !.error = r.error,
                                  !.status = IF r.ret THEN @ ELSE EXIT_FAILURE]
        IN  /\ Log(p, "deploy_tree", <<osname, frame[p].new_commit.val>>, r.ret)
            /\ deployments' = r.deployments
            /\ frame' = [frame EXCEPT ![p] = f]
            /\ Say(p, IF r.ret
                      THEN Line("Deployed new commit. It will boot on next restart.",
                                frame[p].new_commit.val)
                      ELSE Line("Failed to deploy tree", r.error.message))
            /\ pc' = [pc EXCEPT ![p] = "prune"]
    /\ UNCHANGED <<released, remotes, localRefs, transfers, ptrSize,
                   remotes0, deployments0>>

\* DeployTree that goes to cleanup once the tree is staged, past the prune
DeployTree_NoPrune(p) ==
    /\ pc[p] = "deploy"
    /\ \E ok \in BOOLEAN :
        LET r == deploy_tree(deployments, osname, frame[p].new_commit.val,
                             frame[p].origin.val, ok, frame[p].error)
            f == [frame[p] EXCEPT !.error = r.error]
        IN  /\ Log(p, "deploy_tree", <<osname, frame[p].new_commit.val>>, r.ret)
            /\ deployments' = r.deployments
            /\ IF ~r.ret
               THEN Abort(p, f, "Failed to deploy tree")
               ELSE /\ frame' = [frame EXCEPT ![p] = f]
                    /\ Say(p, Line("Deployed new commit. It will boot on next restart.",
                                   frame[p].new_commit.val))
                    /\ pc' = [pc EXCEPT ![p] = "cleanup"]
    /\ UNCHANGED <<released, remotes, localRefs, transfers, ptrSize,
                   remotes0, deployments0>>

\* lines 208-213
DeployTree(p) ==
    /\ pc[p] = "deploy"
    /\ \E ok \in BOOLEAN :
        LET r == deploy_tree(deployments, osname, frame[p].new_commit.val,
                             frame[p].origin.val, ok, frame[p].error)
            f == [frame[p] EXCEPT !.error = r.error]
        IN  /\ Log(p, "deploy_tree", <<osname, frame[p].new_commit.val>>, r.ret)
            /\ deployments' = r.deployments
            /\ IF ~r.ret
               THEN Abort(p, f, "Failed to deploy tree")
               ELSE /\ frame' = [frame EXCEPT ![p] = f]
                    /\ Say(p, Line("Deployed new commit. It will boot on next restart.",
                                   frame[p].new_commit.val))
                    /\ pc' = [pc EXCEPT ![p] = "prune"]
    /\ UNCHANGED <<released, remotes, localRefs, transfers, ptrSize,
                   remotes0, deployments0>>

\* lines 215-221
Prune(p) ==
    /\ pc[p] = "prune"
    /\ \E ok \in BOOLEAN :
        LET r == ostree_sysroot_cleanup(deployments, ok, frame[p].error)
            f == [frame[p] EXCEPT !.error = r.error]
        IN  /\ Log(p, "ostree_sysroot_cleanup", <<>>, r.ret)
            /\ deployments' = r.deployments
            /\ IF ~r.ret
               THEN Abort(p, f, "OSTree cleanup failed")
               ELSE /\ frame' = [frame EXCEPT ![p] = f]
                    /\ Say(p, Line("OSTree cleanup completed successfully.", ""))
                    /\ pc' = [pc EXCEPT ![p] = "cleanup"]
    /\ UNCHANGED <<released, remotes, localRefs, transfers, ptrSize,
                   remotes0, deployments0>>

\* the order of the releases at lines 225-239
CleanupOrder == <<"repo", "remote_list", "new_commit", "sysroot", "origin">>

\* the function each release calls
ReleaseFn(h) ==
    CASE h = "repo" -> "g_object_unref"
      [] h = "remote_list" -> "g_strfreev"
      [] h = "new_commit" -> "g_free"
      [] h = "sysroot" -> "g_object_unref"
      [] h = "origin" -> "g_object_unref"

\* the type each variable is declared with (lines 128, 136, 183, 191, 199)
HandleType(h) ==
    CASE h = "repo" -> "OstreeRepo"
      [] h = "remote_list" -> "char **"
      [] h = "new_commit" -> "char *"
      [] h = "sysroot" -> "OstreeSysroot"
      [] h = "origin" -> "GKeyFile"

\* the types a release function takes: g_object_unref wants a GObject, and
\* a GKeyFile is not one
Releases(fn) ==
    CASE fn = "g_object_unref" -> {"OstreeRepo", "OstreeSysroot"}
      [] fn = "g_strfreev" -> {"char **"}
      [] fn = "g_free" -> {"char *"}

\* lines 223-246.  A variable whose declaration the goto jumped over holds
\* an indeterminate value: the test reads it as NULL or as some non-null
\* address (reads), and releasing such an address either ends the process
\* (crash) or goes on.  A release is logged with what the variable held.
Cleanup(p) ==
    /\ pc[p] = "cleanup"
    /\ \E reads \in [{h \in SeqToSet(CleanupOrder) : frame[p][h].st = "uninit"}
                        -> {"null", "garbage"}],
          crash \in BOOLEAN :
        LET seen(h) == IF frame[p][h].st = "uninit" THEN reads[h]
                       ELSE frame[p][h].st
            wild == {i \in 1..Len(CleanupOrder) :
                         seen(CleanupOrder[i]) = "garbage"}
            last == IF crash
                    THEN CHOOSE i \in wild : \A j \in wild : i <= j
                    ELSE Len(CleanupOrder)
            tests == [i \in 1..last |->
                         [var |-> CleanupOrder[i],
                          fn |-> ReleaseFn(CleanupOrder[i]),
                          held |-> seen(CleanupOrder[i])]]
        IN  /\ crash => wild # {}
            /\ released' = [released EXCEPT ![p] =
                               SelectSeq(tests, LAMBDA t : t.held # "null")]
            /\ frame' = [frame EXCEPT ![p].error = NoError]
            /\ IF crash
               THEN /\ pc' = [pc EXCEPT ![p] = "crashed"]
                    /\ UNCHANGED out
               ELSE /\ Say(p, IF frame[p].status = EXIT_SUCCESS
                              THEN Line("All operations completed successfully.", "")
                              ELSE Line("Update failed", ""))
                    /\ pc' = [pc EXCEPT ![p] = "done"]
    /\ UNCHANGED <<remotes, localRefs, deployments, transfers, calls,
                   ptrSize, remotes0, deployments0>>

----------------------------------------------------------------------------
(* The states main can start in.                                           *)

MirrorUrl == "https://mirror.example/ostreerepo"

Remote(name, url) == [name |-> name, url |-> url]

InitRemotes ==
    {{},
     {Remote(remote_name, remote_url)},
     {Remote(remote_name, MirrorUrl)},
     {Remote("flathub", MirrorUrl)},
     {Remote("flathub", MirrorUrl), Remote(remote_name, remote_url)}}

OldCommit == "0ddba11"

InitLocalRefs == {{}, {[ref |-> ref, commit |-> OldCommit]}}

Deployment(commit, role) ==
    [osname |-> osname, commit |-> commit,
     origin |-> Refspec(remote_name, ref), role |-> role]

InitDeployments ==
    {<<Deployment(OldCommit, "booted")>>,
     <<Deployment(OldCommit, "booted"), Deployment("5ca1ab1e", "rollback")>>,
     <<Deployment(OldCommit, "booted"), Deployment("5ca1ab1e", "rollback"),
       Deployment("deadbeef", "obsolete")>>}

InitOf(P, at, f0) ==
    /\ pc = [p \in P |-> at]
    /\ frame = [p \in P |-> f0]
    /\ out = [p \in P |-> <<>>]
    /\ released = [p \in P |-> <<>>]
    /\ remotes \in InitRemotes
    /\ localRefs \in InitLocalRefs
    /\ deployments \in InitDeployments
    /\ transfers = <<>>
    /\ calls = <<>>
    /\ ptrSize \in PointerSizes
    /\ remotes0 = remotes
    /\ deployments0 = deployments

\* one invocation of the program
Init == InitOf({1}, "open", Frame0)

Next ==
    \/ \E p \in Procs : OpenRepo(p)
    \/ \E p \in Procs : ListRemotes(p)
    \/ \E p \in Procs : EnsureRemote(p)
    \/ \E p \in Procs : Pull(p)
    \/ \E p \in Procs : Resolve(p)
    \/ \E p \in Procs : LoadDeployments(p)
    \/ \E p \in Procs : CreateOrigin(p)
    \/ \E p \in Procs : DeployTree(p)
    \/ \E p \in Procs : Prune(p)
    \/ \E p \in Procs : Cleanup(p)

Spec == Init /\ [][Next]_vars

\* main is a sequential program: as long as every call returns, it takes
\* its next step
SpecFair == Spec /\ WF_vars(Next)

\* the processes a specification may run
AllProcs == {1, 2}

----------------------------------------------------------------------------
(* The wrappers are external functions of the file: a client other than    *)
(* main may call each with arguments of its own.  The client holds an open *)
(* repository and passes an error that is NULL before every call.          *)

\* the number of calls the client makes
MaxCalls == 2

NameArgs == {"linuxmint", "acme"}
RefArgs == {"myOS/amd64/stable", "s"}
RefsArgs == {<<>>} \cup {<<r>> : r \in RefArgs}

ClientFrame0 ==
    [Frame0 EXCEPT !.repo = Ptr("OstreeRepo"),
                   !.remote_list = NullList,
                   !.new_commit = NullPtr,
                   !.sysroot = Ptr("OstreeSysroot"),
                   !.origin = NullList]

ClientStep(p, f) ==
    /\ frame' = [frame EXCEPT ![p] = f]
    /\ pc' = pc
    /\ UNCHANGED <<out, released, deployments, ptrSize, remotes0,
                   deployments0>>

\* lines 25-37
CallListRemote(p) ==
    /\ pc[p] = "client" /\ Len(calls) < MaxCalls
    /\ LET r == list_remote(remotes, NoError)
       IN  /\ Log(p, "list_remote", <<>>, r.ret.st = "set")
           /\ ClientStep(p, [frame[p] EXCEPT !.remote_list = r.ret,
                                             !.error = r.error])
    /\ UNCHANGED <<remotes, localRefs, transfers>>

\* lines 40-48
CallAddRemote(p) ==
    /\ pc[p] = "client" /\ Len(calls) < MaxCalls
    /\ \E name \in NameArgs, url \in {remote_url, MirrorUrl}, ok \in BOOLEAN :
        LET r == add_remote(remotes, name, url, ok, NoError)
        IN  /\ Log(p, "add_remote", <<name, url>>, r.ret)
            /\ remotes' = r.remotes
            /\ ClientStep(p, [frame[p] EXCEPT !.error = r.error])
    /\ UNCHANGED <<localRefs, transfers>>

\* lines 51-69
CallPullRemote(p) ==
    /\ pc[p] = "client" /\ Len(calls) < MaxCalls
    /\ \E name \in NameArgs, rfs \in RefsArgs, ok \in BOOLEAN :
        LET r == pull_remote(remotes, localRefs, name, rfs, ok, NoError)
        IN  /\ Log(p, "pull_remote", rfs, r.ret)
            /\ transfers' = Append(transfers, r.forwarded)
            /\ localRefs' = r.localRefs
            /\ ClientStep(p, [frame[p] EXCEPT !.error = r.error])
    /\ UNCHANGED remotes

\* lines 72-80
CallResolveRev(p) ==
    /\ pc[p] = "client" /\ Len(calls) < MaxCalls
    /\ \E r \in RefArgs, ok \in BOOLEAN :
        LET res == resolve_rev(localRefs, r, ok, NoError)
        IN  /\ Log(p, "resolve_rev", <<r>>, res.ret)
            /\ ClientStep(p, [frame[p] EXCEPT !.new_commit = res.new_commit,
                                              !.error = res.error])
    /\ UNCHANGED <<remotes, localRefs, transfers>>

\* lines 93-104
CallCreateOrigin(p) ==
    /\ pc[p] = "client" /\ Len(calls) < MaxCalls
    /\ \E name \in NameArgs, r \in RefArgs, ok \in BOOLEAN :
        LET res == create_origin(ptrSize, name, r, ok)
        IN  /\ Log(p, "create_origin", <<name, r>>, res.ret)
            /\ ClientStep(p, [frame[p] EXCEPT !.origin = res.origin,
                                              !.refspec_str = res.refspec_str,
                                              !.error = NoError])
    /\ UNCHANGED <<remotes, localRefs, transfers>>

InitClient == InitOf({1}, "client", ClientFrame0)

NextClient ==
    \/ \E p \in Procs : CallListRemote(p)
    \/ \E p \in Procs : CallAddRemote(p)
    \/ \E p \in Procs : CallPullRemote(p)
    \/ \E p \in Procs : CallResolveRev(p)
    \/ \E p \in Procs : CallCreateOrigin(p)

SpecClient == InitClient /\ [][NextClient]_vars

----------------------------------------------------------------------------
(* Properties                                                              *)

\* the calls process p made, in order
ProcCalls(p) == SelectSeq(calls, LAMBDA c : c.proc = p)

\* p made the call op with result ok
Called(p, op, ok) == \E i \in 1..Len(calls) :
    calls[i].proc = p /\ calls[i].op = op /\ calls[i].ok = ok

Ended(p) == pc[p] \in {"cleanup", "done", "crashed"}

\* C1: as long as no stage (deploy_tree) has succeeded, the deployments of
\* the boot environment are those the transaction started with, whichever
\* step failed: only a successful stage changes them first.
C1_NoStageNoChange ==
    (~ \E p \in Procs : Called(p, "deploy_tree", TRUE))
        => deployments = deployments0

\* C1 witness: a transaction ended after its stage failed, deployments as
\* at the start
C1_Witness ==
    \E p \in Procs : /\ pc[p] = "done"
                     /\ Called(p, "deploy_tree", FALSE)
                     /\ deployments = deployments0
                     /\ Len(deployments0) = 3

\* C2: a transaction whose stage succeeded and whose prune failed ends
\* with the success status, reports the new commit and does not print
\* "Update failed".
C2_PruneFailureIsSuccess ==
    \A p \in Procs :
        (/\ pc[p] = "done"
         /\ Called(p, "deploy_tree", TRUE)
         /\ Called(p, "ostree_sysroot_cleanup", FALSE))
        => /\ frame[p].status = EXIT_SUCCESS
           /\ \E i \in 1..Len(out[p]) :
                out[p][i] = Line("Deployed new commit. It will boot on next restart.",
                                 frame[p].new_commit.val)
           /\ \A i \in 1..Len(out[p]) : out[p][i].text # "Update failed"

\* the operations of one transaction, in the order of main
StepOrder ==
    <<"open_repo", "list_remote", "add_remote", "pull_remote", "resolve_rev",
      "load_deployments", "create_origin", "deploy_tree",
      "ostree_sysroot_cleanup">>

StepIndex(op) == CHOOSE i \in 1..Len(StepOrder) : StepOrder[i] = op

\* C3: the calls of a transaction follow the order of StepOrder: each call
\* comes right after the success of the one before it in that order (the add
\* of the ensure-remote step only when the remote was not listed), and a
\* transaction that ends with success has made them all up to the prune.
C3_StrictOrder ==
    \A p \in Procs :
        LET cs == ProcCalls(p)
        IN  /\ \A i \in 1..Len(cs) :
                 IF i = 1 THEN cs[i].op = "open_repo"
                 ELSE /\ cs[i-1].ok
                      /\ \/ StepIndex(cs[i].op) = StepIndex(cs[i-1].op) + 1
                         \/ /\ cs[i-1].op = "list_remote"
                            /\ cs[i].op = "pull_remote"
                            /\ \E r \in remotes0 : r.name = remote_name
            /\ (pc[p] = "done" /\ frame[p].status = EXIT_SUCCESS)
                 => (cs # <<>> /\ cs[Len(cs)].op = "ostree_sysroot_cleanup")

\* C3 witness: a transaction that made all nine calls, the add included
C3_Witness ==
    \E p \in Procs : pc[p] = "done" /\ Len(ProcCalls(p)) = Len(StepOrder)

\* C4: a listing fails only when the store cannot be listed: no transaction
\* is on its way out with the error of list_remote while the registry is
\* merely empty.
C4_EmptyListIsNoFailure ==
    \A p \in Procs :
        (pc[p] = "cleanup" /\ frame[p].error.set /\ frame[p].error.by = "list_remote")
            => remotes # {}

\* C5: a transaction that started on an empty registry, opened the store
\* and was not refused the addition has, once it ended, registered exactly
\* the remote (remote_name, remote_url).
C5_EmptyRegistryGetsRemote ==
    \A p \in Procs :
        (/\ remotes0 = {}
         /\ Ended(p)
         /\ Called(p, "open_repo", TRUE)
         /\ ~Called(p, "add_remote", FALSE))
        => remotes = {Remote(remote_name, remote_url)}

\* C6: when the remote's name was registered, a transaction that has
\* listed the remotes and gone through the ensure-remote step made no add
\* call and met no add error, and the registry still holds exactly one
\* remote of that name, with the URL it had, also when remote_url differs.
C6_EnsureIdempotent ==
    \A p \in Procs :
        (/\ \E r \in remotes0 : r.name = remote_name
         /\ Called(p, "list_remote", TRUE)
         /\ pc[p] # "ensure")
        => /\ ~Called(p, "add_remote", TRUE)
           /\ ~Called(p, "add_remote", FALSE)
           /\ frame[p].error.by # "add_remote"
           /\ Cardinality({r \in remotes : r.name = remote_name}) = 1
           /\ \A r \in remotes : r.name = remote_name => r \in remotes0

\* C6 witness: the ensure-remote step has run on a registry that holds the
\* name with another URL
C6_Witness ==
    \E p \in Procs : /\ pc[p] = "pull"
                     /\ Remote(remote_name, MirrorUrl) \in remotes0
                     /\ remote_url # MirrorUrl

\* C7: the origin built for (remote_name, ref), which fits the buffer of
\* RefspecBufSize bytes, is the whole refspec, in main's variable and in
\* every deployment staged from it.
C7_OriginIsFullRefspec ==
    Len(Refspec(remote_name, ref)) < RefspecBufSize =>
        /\ \A p \in Procs :
             frame[p].origin.st = "set"
                => frame[p].origin.val = Refspec(remote_name, ref)
        /\ \A i \in 1..Len(deployments) :
             deployments[i].origin = Refspec(remote_name, ref)

\* C8: a pull_remote call with no refs returns failure and hands nothing to
\* the transfer primitive.
C8_EmptyRefsRejected ==
    \A i \in 1..Len(calls) :
        (calls[i].op = "pull_remote" /\ calls[i].arg = <<>>)
            => /\ ~calls[i].ok
               /\ \A j \in 1..Len(transfers) : transfers[j] # <<>>

\* C9: when main has ended, every variable that holds a handle was released
\* by exactly one call of a function that releases its type, nothing else
\* was released, and cleanup read no variable whose declaration was jumped
\* over.
C9_ReleasedExactlyOnce ==
    \A p \in Procs :
        (pc[p] = "done" \/ (pc[p] = "crashed" /\ released[p] # <<>>))
        => \A i \in 1..Len(CleanupOrder) :
             LET h == CleanupOrder[i]
                 rel == {k \in 1..Len(released[p]) : released[p][k].var = h}
             IN  /\ frame[p][h].st # "uninit"
                 /\ frame[p][h].st = "set" =>
                       /\ Cardinality(rel) = 1
                       /\ \A k \in rel :
                            HandleType(h) \in Releases(released[p][k].fn)
                 /\ frame[p][h].st # "set" => rel = {}

\* C10: a transaction on a failure branch has status EXIT_FAILURE and has
\* printed the message of the error the failed call set; no failure branch
\* ends the process instead; and a successful stage is reported with its
\* commit.
C10_FailureNamesCause ==
    \A p \in Procs :
        LET cs == ProcCalls(p)
            failed == cs # <<>> /\ ~cs[Len(cs)].ok
        IN  /\ (failed /\ pc[p] = "cleanup")
                 => /\ frame[p].status = EXIT_FAILURE
                    /\ frame[p].error.set
                    /\ frame[p].error.by = cs[Len(cs)].op
                    /\ out[p] # <<>>
                    /\ out[p][Len(out[p])].arg = frame[p].error.message
            /\ ~(failed /\ pc[p] = "crashed" /\ released[p] = <<>>)
            /\ Called(p, "deploy_tree", TRUE)
                 => \E i \in 1..Len(out[p]) :
                      out[p][i] = Line("Deployed new commit. It will boot on next restart.",
                                       frame[p].new_commit.val)

\* the deployment that process p staged
StagedBy(p) ==
    [osname |-> osname, commit |-> frame[p].new_commit.val,
     origin |-> frame[p].origin.val, role |-> "staged"]

\* the calls of p that follow its deploy_tree call
AfterStage(p) ==
    LET cs == ProcCalls(p)
        at == {i \in 1..Len(cs) : cs[i].op = "deploy_tree"}
    IN  IF at = {} THEN <<>>
        ELSE SubSeq(cs, (CHOOSE i \in at : TRUE) + 1, Len(cs))

\* C11: a transaction whose stage succeeded calls nothing but the prune
\* afterwards, at most once and exactly once by the time it is at cleanup or
\* has ended, and the staged deployment stays in the boot environment; and
\* from a successful stage on, the transaction comes to attempt the prune
\* and to end.
C11_StagedThenPruneOnce ==
    /\ [](\A p \in Procs :
            Called(p, "deploy_tree", TRUE) =>
               /\ \A i \in 1..Len(AfterStage(p)) :
                     AfterStage(p)[i].op = "ostree_sysroot_cleanup"
               /\ Len(AfterStage(p)) <= 1
               /\ pc[p] # "prune" => Len(AfterStage(p)) = 1
               /\ pc[p] = "prune" => Len(AfterStage(p)) = 0
               /\ \E i \in 1..Len(deployments) : deployments[i] = StagedBy(p))
    /\ \A p \in AllProcs :
          (p \in Procs /\ Called(p, "deploy_tree", TRUE))
             ~> (/\ p \in Procs
                 /\ pc[p] = "done"
                 /\ Len(AfterStage(p)) = 1)

\* C11 witness: a transaction has ended after a successful stage and a
\* failed prune
C11_Witness ==
    \E p \in Procs : /\ pc[p] = "done"
                     /\ Called(p, "deploy_tree", TRUE)
                     /\ Called(p, "ostree_sysroot_cleanup", FALSE)

\* the status the invocation ends with: main's return value, or that of a
\* process ended by a signal, which is not zero
ExitStatus(p) == IF pc[p] = "crashed" THEN 128 + 11 ELSE frame[p].status

FatalStages ==
    {"list_remote", "add_remote", "pull_remote", "resolve_rev",
     "load_deployments", "create_origin", "deploy_tree"}

\* C12: an invocation that has ended after one of its calls of the stages
\* ensure-remote, pull, resolve, load-deployments or stage failed ends with
\* a status other than EXIT_SUCCESS, and the failed call is the last call it
\* made.
C12_FailedExitsNonZero ==
    \A p \in Procs :
        \A i \in 1..Len(ProcCalls(p)) :
            (ProcCalls(p)[i].op \in FatalStages /\ ~ProcCalls(p)[i].ok)
                => /\ i = Len(ProcCalls(p))
                   /\ pc[p] \in {"done", "crashed"}
                         => ExitStatus(p) # EXIT_SUCCESS

\* C12 witness: an invocation has returned after its pull failed
C12_Witness ==
    \E p \in Procs : pc[p] = "done" /\ Called(p, "pull_remote", FALSE)

\* the position in p's calls of its call op with result ok (0: none)
CallAt(p, op, ok) ==
    LET cs == ProcCalls(p)
        at == {i \in 1..Len(cs) : cs[i].op = op /\ cs[i].ok = ok}
    IN  IF at = {} THEN 0 ELSE CHOOSE i \in at : \A j \in at : i <= j

\* C13: a stage call of a transaction comes after the transaction's own
\* successful pull of ref and, after that, its own successful resolve of
\* ref, and its commit argument is the commit the repository resolves ref
\* to since that pull; a transaction whose pull failed has resolved no
\* commit and staged nothing.
C13_StageResolvedAfterPull ==
    \A p \in Procs :
        /\ \A i \in 1..Len(ProcCalls(p)) :
              ProcCalls(p)[i].op = "deploy_tree" =>
                 /\ 0 < CallAt(p, "pull_remote", TRUE)
                 /\ CallAt(p, "pull_remote", TRUE) < CallAt(p, "resolve_rev", TRUE)
                 /\ CallAt(p, "resolve_rev", TRUE) < i
                 /\ ref \in SeqToSet(ProcCalls(p)[CallAt(p, "pull_remote", TRUE)].arg)
                 /\ ProcCalls(p)[CallAt(p, "resolve_rev", TRUE)].arg = <<ref>>
                 /\ ProcCalls(p)[i].arg = <<osname, RemoteCommit(ref)>>
                 /\ [ref |-> ref, commit |-> ProcCalls(p)[i].arg[2]] \in localRefs
        /\ Called(p, "pull_remote", FALSE) =>
              /\ CallAt(p, "resolve_rev", TRUE) = 0
              /\ CallAt(p, "resolve_rev", FALSE) = 0
              /\ frame[p].new_commit.st # "set"
              /\ ~Called(p, "deploy_tree", TRUE)
              /\ ~Called(p, "deploy_tree", FALSE)

\* C13 witness: a stage was made, of the commit the remote serves and not
\* of the one the repository may have held before the pull
C13_Witness ==
    \E p \in Procs : /\ Called(p, "deploy_tree", TRUE)
                     /\ deployments[1].commit = RemoteCommit(ref)
                     /\ deployments[1].commit # OldCommit
                     /\ deployments[1].role = "staged"

\* C16: a transaction makes each call at most once, and makes no call after
\* one that failed.
C16_NoRetry ==
    \A p \in Procs :
        LET cs == ProcCalls(p)
        IN  /\ \A i, j \in 1..Len(cs) : cs[i].op = cs[j].op => i = j
            /\ \A i \in 1..Len(cs) : ~cs[i].ok => i = Len(cs)

\* C16 witness: a transaction has ended on a failed pull, its fourth call
C16_Witness ==
    \E p \in Procs : /\ pc[p] = "done"
                     /\ Len(ProcCalls(p)) = 4
                     /\ ProcCalls(p)[4] = Call(p, "pull_remote", refs, FALSE)

\* the state of the transaction that process p runs: the states between
\* the steps of main, Pruned once the prune has returned success, Failed
\* once a failure branch was taken or the process was ended
TxState(p) ==
    CASE pc[p] \in {"open", "list", "ensure"} -> "Idle"
      [] pc[p] = "pull" -> "RemoteEnsured"
      [] pc[p] = "resolve" -> "Fetched"
      [] pc[p] = "load" -> "Resolved"
      [] pc[p] \in {"origin", "deploy"} -> "BootLoaded"
      [] pc[p] = "prune" -> "Staged"
      [] pc[p] \in {"cleanup", "done"} ->
             IF frame[p].status = EXIT_SUCCESS THEN "Pruned" ELSE "Failed"
      [] OTHER -> "Failed"

TxOrder ==
    <<"Idle", "RemoteEnsured", "Fetched", "Resolved", "BootLoaded", "Staged",
      "Pruned">>

TxRank(st) ==
    IF st = "Failed" THEN 0
    ELSE CHOOSE i \in 1..Len(TxOrder) : TxOrder[i] = st

\* the call whose success a state stands for
TxReachedBy(st) ==
    CASE st = "Fetched" -> "pull_remote"
      [] st = "Resolved" -> "resolve_rev"
      [] st = "BootLoaded" -> "load_deployments"
      [] st = "Staged" -> "deploy_tree"
      [] st = "Pruned" -> "ostree_sysroot_cleanup"
      [] OTHER -> "open_repo"

\* C17: every step of a transaction keeps its state, moves it to the next
\* state of TxOrder or moves it from a state that is not terminal to Failed;
\* a state past Idle is held only after the call it stands for succeeded;
\* Pruned and Failed are never left; and every transaction comes to stay in
\* Pruned or in Failed.
C17_OneTerminalState ==
    /\ [][\A p \in Procs :
            \/ TxState(p)' = TxState(p)
            \/ /\ TxState(p) \notin {"Pruned", "Failed"}
               /\ \/ TxState(p)' = "Failed"
                  \/ TxRank(TxState(p)') = TxRank(TxState(p)) + 1]_vars
    /\ [](\A p \in Procs :
            TxState(p) \notin {"Idle", "RemoteEnsured", "Failed"}
               => Called(p, TxReachedBy(TxState(p)), TRUE))
    /\ \A p \in AllProcs :
          <>[](p \in Procs => TxState(p) \in {"Pruned", "Failed"})

\* C17 witness: transactions have ended in Failed after a failed resolve
C17_Witness ==
    \E p \in Procs : /\ pc[p] = "done"
                     /\ TxState(p) = "Failed"
                     /\ Called(p, "resolve_rev", FALSE)

----------------------------------------------------------------------------
(* The program run again after a run that failed: the second invocation    *)
(* of main starts once the first has ended, on the repository and sysroot  *)
(* the first left.                                                         *)

\* process p runs when the invocations before it have ended in failure
Turn(p) ==
    \A q \in Procs :
        q < p => pc[q] \in {"done", "crashed"} /\ ExitStatus(q) # EXIT_SUCCESS

InitRerun == InitOf(AllProcs, "open", Frame0)

NextRerun ==
    \/ \E p \in Procs : Turn(p) /\ OpenRepo(p)
    \/ \E p \in Procs : Turn(p) /\ ListRemotes(p)
    \/ \E p \in Procs : Turn(p) /\ EnsureRemote(p)
    \/ \E p \in Procs : Turn(p) /\ Pull(p)
    \/ \E p \in Procs : Turn(p) /\ Resolve(p)
    \/ \E p \in Procs : Turn(p) /\ LoadDeployments(p)
    \/ \E p \in Procs : Turn(p) /\ CreateOrigin(p)
    \/ \E p \in Procs : Turn(p) /\ DeployTree(p)
    \/ \E p \in Procs : Turn(p) /\ Prune(p)
    \/ \E p \in Procs : Turn(p) /\ Cleanup(p)

SpecRerun == InitRerun /\ [][NextRerun]_vars

\* the last call process p made
LastCall(p) == ProcCalls(p)[Len(ProcCalls(p))]

\* the calls that p and q both made returned the same
SameResponses(p, q) ==
    \A i \in 1..Len(ProcCalls(p)), j \in 1..Len(ProcCalls(q)) :
        ProcCalls(p)[i].op = ProcCalls(q)[j].op
            => ProcCalls(p)[i].ok = ProcCalls(q)[j].ok

\* C15: a run p made after a failed run q calls add_remote only when the
\* name was registered neither at the start nor by q, is never refused the
\* addition for a remote that exists, and leaves at most one remote of the
\* name; and when the calls both runs made returned the same, p has ended
\* on the same last call, with the same result, as q, which ran on the
\* fresh store.
C15_RerunSafe ==
    \A p, q \in Procs :
        (q < p /\ ProcCalls(p) # <<>>) =>
            /\ (Called(p, "add_remote", TRUE) \/ Called(p, "add_remote", FALSE))
                  => /\ ~Called(q, "add_remote", TRUE)
                     /\ ~\E r \in remotes0 : r.name = remote_name
            /\ frame[p].error.message # "remote already exists"
            /\ Cardinality({r \in remotes : r.name = remote_name}) <= 1
            /\ (Ended(p) /\ SameResponses(p, q))
                  => /\ LastCall(p).op = LastCall(q).op
                     /\ LastCall(p).ok = LastCall(q).ok
                     /\ ~LastCall(p).ok

\* C15 witness: the first run registered the remote and failed at its pull;
\* the second run, made on what it left, has gone through to the end
C15_Witness ==
    \E p, q \in Procs :
        /\ q < p
        /\ Called(q, "add_remote", TRUE)
        /\ Called(q, "pull_remote", FALSE)
        /\ pc[p] = "done"
        /\ Called(p, "ostree_sysroot_cleanup", TRUE)
        /\ Cardinality(remotes) = 2

----------------------------------------------------------------------------
(* Two invocations of the program at once on one repository and sysroot:   *)
(* their steps interleave, each call being one step of the library.        *)

\* the registries that lack the remote, on one build, one sysroot and a
\* repository without refs
InitTwo ==
    /\ InitOf(AllProcs, "open", Frame0)
    /\ ~\E r \in remotes : r.name = remote_name
    /\ localRefs = {}
    /\ deployments = <<Deployment(OldCommit, "booted")>>
    /\ ptrSize = 8

SpecTwo == InitTwo /\ [][Next]_vars

\* p and q both listed the remotes before either called add_remote, and
\* neither list held the name
BothSawAbsent(p, q) ==
    LET firstAdd == {i \in 1..Len(calls) : calls[i].op = "add_remote"}
        listed(x) == {i \in 1..Len(calls) :
                         /\ calls[i] = Call(x, "list_remote", <<>>, TRUE)
                         /\ \A j \in firstAdd : i < j}
    IN  /\ listed(p) # {} /\ listed(q) # {}
        /\ ~Exists(frame[p].remote_list, remote_name)
        /\ ~Exists(frame[q].remote_list, remote_name)

\* C14: of two transactions that both saw the remote absent, when p has
\* added it and q's add was refused, q has taken the failure branch of the
\* add: its error is the one add_remote set, it makes no further call, so it
\* stages nothing, it ends with a status other than EXIT_SUCCESS, and the
\* registry holds exactly one remote of the name.
C14_LosingAddFails ==
    \A p, q \in Procs :
        (/\ p # q
         /\ BothSawAbsent(p, q)
         /\ Called(p, "add_remote", TRUE)
         /\ Called(q, "add_remote", FALSE))
        => /\ LastCall(q).op = "add_remote"
           /\ ~Called(q, "deploy_tree", TRUE)
           /\ frame[q].status = EXIT_FAILURE
           /\ pc[q] = "cleanup" => frame[q].error.by = "add_remote"
           /\ pc[q] \in {"cleanup", "done", "crashed"}
           /\ ExitStatus(q) # EXIT_SUCCESS
           /\ Cardinality({r \in remotes : r.name = remote_name}) = 1

\* C14 witness: both transactions have ended, one after adding the remote
\* and the other refused because the remote exists
C14_Witness ==
    \E p, q \in Procs :
        /\ p # q
        /\ BothSawAbsent(p, q)
        /\ Called(p, "add_remote", TRUE)
        /\ Called(q, "add_remote", FALSE)
        /\ \E i \in 1..Len(out[q]) :
              out[q][i] = Line("Failed to add remote", "remote already exists")
        /\ pc[p] = "done" /\ pc[q] = "done"

====
